---- MODULE Spec2Model ----
(***************************************************************************)
(* Model of the usage-timeline computations of scheduler-job-export:       *)
(*   - analyze_true_utilization.py: load_job_data,                         *)
(*     calculate_utilization_timeseries (the event sweep) and the peak     *)
(*     that calculate_statistics reports;                                  *)
(*   - analyze_concurrent_load.py: the hourly fixed-tick sampling loop.    *)
(* One run of one script is one behaviour: Init picks the script and the   *)
(* rows of the CSV file it is given.                                       *)
(*                                                                         *)
(* Timestamps are integers (a number of time units since an epoch) and     *)
(* resource amounts are naturals; pandas' float arithmetic on fractional   *)
(* amounts is not modelled.  Rows whose timestamps do not parse (NaT) are  *)
(* not among the enumerated inputs.  The columns the scripts carry along   *)
(* but never read (nodes, submit_time) and the utilisation percentages     *)
(* derived from the allocated amounts are left out of the rows.            *)
(***************************************************************************)
EXTENDS Integers, Sequences, FiniteSets

VARIABLES script, pc, csv_rows, df,
          events, events_df, idx, current_cpus, current_memory_mb,
          timeseries, stats,
          start_date, end_date, current_time, sample_count, time_points,
          concurrent_cpus, concurrent_compute_cpus, concurrent_gpu_cpus,
          concurrent_jobs,
          peak_load, peak_time, peak_jobs,
          peak_to_avg,
          calls, frames,
          df_sorted, user_queue, arrays_detected, sequences,
          impact_time, end_time, baseline, recovery_times, impact_events,
          argv, input_exists, input_file, output_file, scheduler, exit_status, messages,
          files_read, files_written

sweepVars == <<events, events_df, idx, current_cpus, current_memory_mb,
               timeseries, stats>>
tickVars == <<start_date, end_date, current_time, sample_count, time_points,
              concurrent_cpus, concurrent_compute_cpus, concurrent_gpu_cpus,
              concurrent_jobs>>
peakVars == <<peak_load, peak_time, peak_jobs>>
reportVars == <<peak_to_avg>>
callVars == <<calls, frames>>
arrayVars == <<df_sorted, user_queue, arrays_detected, sequences>>
recoveryVars == <<impact_time, end_time, baseline, recovery_times, impact_events>>
configVars == <<argv, input_exists, input_file, output_file, scheduler, exit_status, messages,
                files_read, files_written>>
vars == <<script, pc, csv_rows, df, sweepVars, tickVars, peakVars, reportVars,
         callVars, arrayVars, recoveryVars, configVars>>

----------------------------------------------------------------------------
(* Bounds of the enumerated inputs *)

MaxJobs == 2
MaxTime == 2
MaxCpus == 1
MaxTickTime == 3
MaxArrayJobs == 6
MaxWorkflowJobs == 6
MaxSlots == 7
MaxNameLen == 3

(* timedelta(hours=1), in time units of half an hour *)
SampleInterval == 2

(* timedelta(hours=6), in time units of three hours *)
PeakInterval == 2

(* run_time_seconds < 360000, i.e. 100 hours, in time units of half an hour *)
MaxRunTime == 200

(* if len(array_jobs) >= 3 *)
MinArraySize == 3

(* workflow_threshold = 300  # 5 minutes *)
WorkflowThreshold == 300

(* if len(sequence_jobs) >= 3 *)
MinSequenceLength == 3

(* max_recovery_hours=12 *)
MaxRecoveryHours == 12

(* sampling_interval = timedelta(minutes=30), in time units of half an hour *)
SamplingInterval == 1

(* timedelta(hours=1), the window of a recovery sample, in half-hours *)
RecoveryWindow == 2

(* window_before = timedelta(hours=1), in half-hours *)
WindowBefore == 2

(* window_after = timedelta(hours=2), in half-hours *)
WindowAfter == 4

(* if len(others_window) >= 5: minimum data of a window *)
MinWindowJobs == 5

(* pandas' missing timestamp, a value that is no instant of the inputs *)
NaT == 0 - 1

----------------------------------------------------------------------------
(* Generic helpers *)

BoundedSeq(S, n) == UNION {[1..k -> S] : k \in 0..n}

Range(s) == {s[i] : i \in DOMAIN s}

Max(S) == CHOOSE x \in S : \A y \in S : y <= x

Min(S) == CHOOSE x \in S : \A y \in S : x <= y

RECURSIVE SumSeq(_)
SumSeq(s) == IF s = <<>> THEN 0 ELSE Head(s) + SumSeq(Tail(s))

RECURSIVE Flatten(_)
Flatten(ss) == IF ss = <<>> THEN <<>> ELSE Head(ss) \o Flatten(Tail(ss))

----------------------------------------------------------------------------
(* Inputs of analyze_true_utilization.py *)

Row(s, e, c, m) == [start_time |-> s, end_time |-> e, cpus |-> c, mem_req |-> m]

MemValues == {0, 1}

(* rows that ran for a positive time; a memory request is enumerated for *)
(* the one-CPU rows that start at 0                                      *)
ValidRows == {r \in [start_time : 0..MaxTime, end_time : 0..MaxTime,
                     cpus : 1..MaxCpus, mem_req : MemValues] :
                 /\ r.start_time < r.end_time
                 /\ (r.cpus > 1 \/ r.start_time > 0) => r.mem_req = 0}

(* rows that request no CPU *)
ZeroRows == {Row(0, 1, 0, 1), Row(1, 2, 0, 0)}

(* a zero-duration row and a negative-duration row *)
InvalidRows == {Row(1, 1, 1, 1), Row(1, 0, 1, 0)}

(* a row that requests a negative number of CPUs *)
NegativeRows == {Row(0, 1, 0 - 1, 1)}

RawRows == ValidRows \cup ZeroRows \cup InvalidRows \cup NegativeRows

(* A = [0,10) amount 5 and B = [10,20) amount 3, in both file orders *)
TieBreakBatches == {<<Row(0, 10, 5, 0), Row(10, 20, 3, 0)>>,
                    <<Row(10, 20, 3, 0), Row(0, 10, 5, 0)>>}

ConcreteRows == {Row(0, 10, 4, 0), Row(5, 15, 2, 0), Row(20, 25, 6, 0)}

(* [(0,10,4), (5,15,2), (20,25,6)] in every file order *)
ConcreteBatches == {b \in [1..3 -> ConcreteRows] : Range(b) = ConcreteRows}

SweepInputs == BoundedSeq(RawRows, MaxJobs) \cup TieBreakBatches \cup ConcreteBatches

----------------------------------------------------------------------------
(* analyze_true_utilization.py *)

(* df[df['start_time'] < df['end_time']] *)
ValidTimes(job) == job.start_time < job.end_time

(* load_job_data: the rows that ran are kept, in file order *)
load_job_data(rows) == SelectSeq(rows, ValidTimes)

(* variant: the end event carries no amounts *)
EndEvent_NoAmount(job) == [timestamp |-> job.end_time, event_type |-> "end",
                           cpus |-> 0, memory_mb |-> 0]

StartEvent(job) == [timestamp |-> job.start_time, event_type |-> "start",
                    cpus |-> job.cpus, memory_mb |-> job.mem_req]

EndEvent(job) == [timestamp |-> job.end_time, event_type |-> "end",
                  cpus |-> job.cpus, memory_mb |-> job.mem_req]

(* variant: no end events are created *)
JobEvents_StartsOnly(jobs) == [i \in DOMAIN jobs |-> StartEvent(jobs[i])]

(* the loop over df.iterrows(): a start event then an end event per job *)
JobEvents(jobs) == Flatten([i \in DOMAIN jobs |-> <<StartEvent(jobs[i]), EndEvent(jobs[i])>>])

(* variant: descending order *)
FirstPositions_Descending(evs, S) ==
    {i \in S : \A j \in S : evs[i].timestamp >= evs[j].timestamp}

(* The positions that may come first when the positions in S of evs are   *)
(* sorted by timestamp: any position holding the least timestamp.         *)
(* sort_values uses kind='quicksort', which is not stable, so the order   *)
(* of events that share a timestamp is any order.                         *)
FirstPositions(evs, S) == {i \in S : \A j \in S : evs[i].timestamp <= evs[j].timestamp}

RECURSIVE SortedOrders(_, _)
SortedOrders(evs, S) ==
    IF S = {} THEN {<<>>}
    ELSE UNION {{<<evs[i]>> \o rest : rest \in SortedOrders(evs, S \ {i})} :
                i \in FirstPositions(evs, S)}

(* variant: the events are left in creation order *)
sort_values_Unsorted(evs) == {evs}

(* variant: one event is kept per timestamp *)
sort_values_DistinctTimes(evs) ==
    SortedOrders(evs, {i \in DOMAIN evs :
                          \A j \in DOMAIN evs : j < i => evs[j].timestamp # evs[i].timestamp})

(* events_df.sort_values('timestamp'): every outcome the sort may produce *)
sort_values(evs) == SortedOrders(evs, DOMAIN evs)

(* variant: an end event releases nothing *)
ApplyEvent_NeverReleases(total, event_type, amount) ==
    IF event_type = "start" THEN total + amount ELSE total

(* the running total after one event, clamped at 0 *)
ApplyEvent(total, event_type, amount) ==
    LET updated == IF event_type = "start" THEN total + amount ELSE total - amount
    IN  IF updated < 0 THEN 0 ELSE updated

Sample(event, cpus, mem) ==
    [timestamp |-> event.timestamp, event_type |-> event.event_type,
     cpus_allocated |-> cpus, memory_allocated_mb |-> mem]

(* cpus_alloc.max() of calculate_statistics *)
PeakCpus(ts) == Max({ts[i].cpus_allocated : i \in DOMAIN ts})

(* the loop over events_df.iterrows() as a function of the sorted events:  *)
(* the samples appended after acc, starting from the totals cpus and mem   *)
RECURSIVE SweepFrom(_, _, _, _)
SweepFrom(evs, cpus, mem, acc) ==
    IF evs = <<>> THEN acc
    ELSE LET event == Head(evs)
             c == ApplyEvent(cpus, event.event_type, event.cpus)
             m == ApplyEvent(mem, event.event_type, event.memory_mb)
         IN  SweepFrom(Tail(evs), c, m, Append(acc, Sample(event, c, m)))

(* every series calculate_utilization_timeseries may return for jobs *)
SweepOutcomes(jobs) == {SweepFrom(sorted, 0, 0, <<>>) : sorted \in sort_values(JobEvents(jobs))}

(* load_job_data, called from main *)
LoadJobData ==
    /\ script = "true_utilization" /\ pc = "load"
    /\ df' = load_job_data(csv_rows)
    /\ pc' = "events"
    /\ UNCHANGED <<peakVars, reportVars, callVars, arrayVars, recoveryVars, configVars, script, csv_rows, sweepVars, tickVars>>

(* calculate_utilization_timeseries: the events list *)
BuildEvents ==
    /\ pc = "events"
    /\ events' = JobEvents(df)
    /\ pc' = "sort"
    /\ UNCHANGED <<peakVars, reportVars, callVars, arrayVars, recoveryVars, configVars, script, csv_rows, df, events_df, idx, current_cpus,
                   current_memory_mb, timeseries, stats, tickVars>>

(* pd.DataFrame(events).sort_values('timestamp'): a frame built from an   *)
(* empty list has no columns, so sorting it by 'timestamp' raises KeyError *)
SortEvents ==
    /\ pc = "sort"
    /\ IF events = <<>>
       THEN /\ pc' = "KeyError"
            /\ UNCHANGED events_df
       ELSE /\ events_df' \in sort_values(events)
            /\ pc' = "sweep"
    /\ UNCHANGED <<peakVars, reportVars, callVars, arrayVars, recoveryVars, configVars, script, csv_rows, df, events, idx, current_cpus,
                   current_memory_mb, timeseries, stats, tickVars>>

(* one iteration of the loop over events_df.iterrows() *)
SweepEvent ==
    /\ pc = "sweep"
    /\ idx < Len(events_df)
    /\ LET event == events_df[idx + 1]
           cpus == ApplyEvent(current_cpus, event.event_type, event.cpus)
           mem == ApplyEvent(current_memory_mb, event.event_type, event.memory_mb)
       IN  /\ current_cpus' = cpus
           /\ current_memory_mb' = mem
           /\ timeseries' = Append(timeseries, Sample(event, cpus, mem))
    /\ idx' = idx + 1
    /\ UNCHANGED <<peakVars, reportVars, callVars, arrayVars, recoveryVars, configVars, script, pc, csv_rows, df, events, events_df, stats, tickVars>>

(* the loop is exhausted: ts_df is returned to main *)
ReturnTimeseries ==
    /\ pc = "sweep"
    /\ idx = Len(events_df)
    /\ pc' = "stats"
    /\ UNCHANGED <<peakVars, reportVars, callVars, arrayVars, recoveryVars, configVars, script, csv_rows, df, sweepVars, tickVars>>

(* timestamp.diff() of the sorted series: row i - row i-1, from row 2 on *)
TimeDelta(sorted, i) == sorted[i].timestamp - sorted[i - 1].timestamp

(* the time-weighted block for one order of ts_df.sort_values('timestamp'): *)
(* the first row is dropped, every other row's value is multiplied by its   *)
(* time_delta.  cpu is the sum in CPU units: cpu_utilization_pct is          *)
(* cpus_allocated * 100 / total_cpus, the same factor in every row.          *)
TimeWeighted(sorted) ==
    [cpu |-> SumSeq([i \in 1..(Len(sorted) - 1) |->
                        sorted[i + 1].cpus_allocated * TimeDelta(sorted, i + 1)]),
     total_time |-> SumSeq([i \in 1..(Len(sorted) - 1) |-> TimeDelta(sorted, i + 1)])]

NoStats == [cpus_peak |-> 0, time_weighted |-> [cpu |-> 0, total_time |-> 0]]

(* calculate_statistics: the absolute CPU allocation peak and the *)
(* time-weighted utilization                                      *)
CalculateStatistics ==
    /\ pc = "stats"
    /\ \E sorted \in sort_values(timeseries) :
           stats' = [cpus_peak |-> PeakCpus(timeseries),
                     time_weighted |-> TimeWeighted(sorted)]
    /\ pc' = "done"
    /\ UNCHANGED <<peakVars, reportVars, callVars, arrayVars, recoveryVars, configVars, script, csv_rows, df, events, events_df, idx, current_cpus,
                   current_memory_mb, timeseries, tickVars>>

----------------------------------------------------------------------------
(* analyze_concurrent_load.py *)

TickRow(s, e, c, n) == [start_time |-> s, end_time |-> e, cpus_req |-> c, nodelist |-> n]

NodeLists == {"cn01", "gpu01"}

(* rows with a positive run time; jobs on a GPU node are enumerated only *)
(* with one CPU and the start time 0                                    *)
ValidTickRows == {r \in [start_time : 0..MaxTickTime, end_time : 0..MaxTickTime,
                         cpus_req : 1..MaxCpus, nodelist : NodeLists] :
                     /\ r.start_time < r.end_time
                     /\ r.nodelist = "gpu01" => (r.start_time = 0 /\ r.cpus_req = 1)}

(* a zero-duration row *)
InvalidTickRows == {TickRow(1, 1, 1, "cn01")}

(* a job that requests no CPU (cpus_req is read as it stands in the file) *)
ZeroTickRows == {TickRow(0, 1, 0, "cn01")}

TickInputs == BoundedSeq(ValidTickRows \cup InvalidTickRows \cup ZeroTickRows, MaxJobs)

(* 'gpu' if 'gpu' in str(x).lower() else 'compute' *)
NodeType(nodelist) == IF nodelist = "gpu01" THEN "gpu" ELSE "compute"

(* (run_time_seconds > 0) & (run_time_seconds < 360000) *)
ValidRunTime(job) ==
    LET run_time == job.end_time - job.start_time
    IN  run_time > 0 /\ run_time < MaxRunTime

WithNodeType(job) ==
    [start_time |-> job.start_time, end_time |-> job.end_time,
     cpus_req |-> job.cpus_req, node_type |-> NodeType(job.nodelist)]

load_concurrent(rows) ==
    LET kept == SelectSeq(rows, ValidRunTime)
    IN  [i \in DOMAIN kept |-> WithNodeType(kept[i])]

(* variant: a job ending at the tick is still counted *)
RunningAt_EndInclusive(job, t) == job.start_time <= t /\ job.end_time >= t

(* (df['start_time'] <= current_time) & (df['end_time'] > current_time) *)
RunningAt(job, t) == job.start_time <= t /\ job.end_time > t

RunningJobs(jobs, t) ==
    LET running(job) == RunningAt(job, t)
    IN  SelectSeq(jobs, running)

OfType(jobs, type) ==
    LET is(job) == job.node_type = type
    IN  SelectSeq(jobs, is)

CpusReq(jobs) == SumSeq([i \in DOMAIN jobs |-> jobs[i].cpus_req])

(* reading and filtering the CSV file *)
LoadConcurrent ==
    /\ script = "concurrent_load" /\ pc = "load"
    /\ df' = load_concurrent(csv_rows)
    /\ pc' = "range"
    /\ UNCHANGED <<peakVars, reportVars, callVars, arrayVars, recoveryVars, configVars, script, csv_rows, sweepVars, tickVars>>

(* start_date, end_date: min and max of an empty column are NaT *)
TimeRange ==
    /\ pc = "range"
    /\ start_date' = IF df = <<>> THEN NaT ELSE Min({df[i].start_time : i \in DOMAIN df})
    /\ end_date' = IF df = <<>> THEN NaT ELSE Max({df[i].end_time : i \in DOMAIN df})
    /\ current_time' = start_date'
    /\ pc' = "sample"
    /\ UNCHANGED <<peakVars, reportVars, callVars, arrayVars, recoveryVars, configVars, script, csv_rows, df, sweepVars, sample_count, time_points,
                   concurrent_cpus, concurrent_compute_cpus, concurrent_gpu_cpus,
                   concurrent_jobs>>

(* variant: the tick at end_date is left out *)
LoopCondition_Exclusive == current_time # NaT /\ end_date # NaT /\ current_time < end_date

(* while current_time <= end_date: a comparison with NaT is false *)
LoopCondition == current_time # NaT /\ end_date # NaT /\ current_time <= end_date

(* variant: the tick is not advanced *)
Advance_Stuck(t, interval) == t

(* current_time += sample_interval *)
Advance(t, interval) == t + interval

(* one iteration of the hourly sampling loop *)
SampleTick ==
    /\ pc = "sample"
    /\ LoopCondition
    /\ LET running_jobs == RunningJobs(df, current_time)
       IN  /\ time_points' = Append(time_points, current_time)
           /\ concurrent_cpus' = Append(concurrent_cpus, CpusReq(running_jobs))
           /\ concurrent_compute_cpus' =
                  Append(concurrent_compute_cpus, CpusReq(OfType(running_jobs, "compute")))
           /\ concurrent_gpu_cpus' =
                  Append(concurrent_gpu_cpus, CpusReq(OfType(running_jobs, "gpu")))
           /\ concurrent_jobs' = Append(concurrent_jobs, Len(running_jobs))
    /\ current_time' = Advance(current_time, SampleInterval)
    /\ sample_count' = sample_count + 1
    /\ UNCHANGED <<peakVars, reportVars, callVars, arrayVars, recoveryVars, configVars, script, pc, csv_rows, df, sweepVars, start_date, end_date>>

(* the loop condition fails *)
EndSampling ==
    /\ pc = "sample"
    /\ ~LoopCondition
    /\ pc' = "sampled"
    /\ UNCHANGED <<peakVars, reportVars, callVars, arrayVars, recoveryVars, configVars, script, csv_rows, df, sweepVars, tickVars>>

(* Floating-point values: a quotient of integers, an infinity or a NaN *)
Ratio(n, d) == [kind |-> "ratio", num |-> n, den |-> d]

NaN == [kind |-> "nan"]

Inf == [kind |-> "inf"]

Unset == [kind |-> "unset"]

(* Series.max(): NaN for an empty series *)
SeriesMax(s) == IF s = <<>> THEN NaN ELSE Ratio(Max(Range(s)), 1)

(* Series.mean(): NaN for an empty series *)
SeriesMean(s) == IF s = <<>> THEN NaN ELSE Ratio(SumSeq(s), Len(s))

(* division of numpy scalars (non-negative here): x / 0 is inf, 0 / 0 and *)
(* any quotient with NaN are NaN; no exception is raised                  *)
Divide(a, b) ==
    IF a = NaN \/ b = NaN THEN NaN
    ELSE IF b.num = 0 THEN (IF a.num = 0 THEN NaN ELSE Inf)
    ELSE Ratio(a.num * b.den, a.den * b.num)

(* peak_to_avg = concurrent_series.max() / concurrent_series.mean() *)
PeakToAverage ==
    /\ script = "concurrent_load" /\ pc = "sampled"
    /\ peak_to_avg' = Divide(SeriesMax(concurrent_cpus), SeriesMean(concurrent_cpus))
    /\ pc' = "reported"
    /\ UNCHANGED <<peakVars, callVars, arrayVars, recoveryVars, configVars, script, csv_rows, df, sweepVars, tickVars>>

----------------------------------------------------------------------------
(* analyze_mock_user_group_data.py: load_data and analyze_peak_attribution. *)
(* The variables of the hourly loop are used for the 6-hourly one:          *)
(* current_time holds current and time_points holds sample_times.           *)

PeakRow(s, e, c) == [start_time |-> s, end_time |-> e, cpus_req |-> c]

ValidPeakRows == {r \in [start_time : 0..MaxTickTime, end_time : 0..MaxTickTime,
                         cpus_req : 1..MaxCpus] :
                     r.start_time < r.end_time}

(* a row that ends before it starts and a row that requests no CPU; *)
(* load_data filters nothing                                        *)
OddPeakRows == {PeakRow(2, 1, 1), PeakRow(0, 3, 0)}

PeakInputs == BoundedSeq(ValidPeakRows \cup OddPeakRows, MaxJobs)

(* jobs['runtime_seconds'] = (jobs['end_time'] - jobs['start_time']) *)
WithRuntime(job) ==
    [start_time |-> job.start_time, end_time |-> job.end_time,
     cpus_req |-> job.cpus_req, runtime_seconds |-> job.end_time - job.start_time]

AddRuntimeColumn(jobs) == [i \in DOMAIN jobs |-> WithRuntime(jobs[i])]

(* the peak found so far; no jobs stands for None *)
NoPeak == [load |-> 0, time |-> NaT, jobs |-> <<>>]

(* the loop over sample_times: the peak after the times from position k on *)
RECURSIVE ScanPeak(_, _, _, _)
ScanPeak(jobs, times, k, peak) ==
    IF k > Len(times) THEN peak
    ELSE LET running == RunningJobs(jobs, times[k])
             load == CpusReq(running)
         IN  ScanPeak(jobs, times, k + 1,
                      IF load > peak.load
                      THEN [load |-> load, time |-> times[k], jobs |-> running]
                      ELSE peak)

(* load_data: the jobs file is parsed and nothing is filtered *)
LoadMock ==
    /\ script = "peak_attribution" /\ pc = "load"
    /\ df' = csv_rows
    /\ pc' = "peak_call"
    /\ UNCHANGED <<peakVars, reportVars, callVars, arrayVars, recoveryVars, configVars, script, csv_rows, sweepVars, tickVars>>

(* analyze_peak_attribution(jobs): the runtime_seconds column is set on *)
(* the caller's table                                                  *)
PeakAddRuntime ==
    /\ pc = "peak_call"
    /\ df' = AddRuntimeColumn(df)
    /\ pc' = "peak_range"
    /\ UNCHANGED <<peakVars, reportVars, callVars, arrayVars, recoveryVars, configVars, script, csv_rows, sweepVars, tickVars>>

PeakRange ==
    /\ pc = "peak_range"
    /\ start_date' = IF df = <<>> THEN NaT ELSE Min({df[i].start_time : i \in DOMAIN df})
    /\ end_date' = IF df = <<>> THEN NaT ELSE Max({df[i].end_time : i \in DOMAIN df})
    /\ current_time' = start_date'
    /\ pc' = "peak_sample"
    /\ UNCHANGED <<peakVars, reportVars, callVars, arrayVars, recoveryVars, configVars, script, csv_rows, df, sweepVars, sample_count, time_points,
                   concurrent_cpus, concurrent_compute_cpus, concurrent_gpu_cpus,
                   concurrent_jobs>>

(* while current < end_date: a comparison with NaT is false *)
PeakLoopCondition == current_time # NaT /\ end_date # NaT /\ current_time < end_date

(* one iteration of the loop that fills sample_times *)
PeakSampleTime ==
    /\ pc = "peak_sample"
    /\ PeakLoopCondition
    /\ time_points' = Append(time_points, current_time)
    /\ current_time' = Advance(current_time, PeakInterval)
    /\ UNCHANGED <<peakVars, reportVars, callVars, arrayVars, recoveryVars, configVars, script, pc, csv_rows, df, sweepVars, start_date, end_date,
                   sample_count, concurrent_cpus, concurrent_compute_cpus,
                   concurrent_gpu_cpus, concurrent_jobs>>

(* the loop condition fails; the loop over sample_times finds the peak *)
PeakScan ==
    /\ pc = "peak_sample"
    /\ ~PeakLoopCondition
    /\ LET peak == ScanPeak(df, time_points, 1, NoPeak)
       IN  /\ peak_load' = peak.load
           /\ peak_time' = peak.time
           /\ peak_jobs' = peak.jobs
    /\ pc' = "peak_report"
    /\ UNCHANGED <<reportVars, callVars, arrayVars, recoveryVars, configVars, script, csv_rows, df, sweepVars, tickVars>>

(* the report: len(peak_jobs) raises TypeError when peak_jobs is None *)
PeakReport ==
    /\ pc = "peak_report"
    /\ pc' = IF peak_jobs = <<>> THEN "TypeError" ELSE "done"
    /\ UNCHANGED <<peakVars, reportVars, callVars, arrayVars, recoveryVars, configVars, script, csv_rows, df, sweepVars, tickVars>>

----------------------------------------------------------------------------

(* None as a recovery time *)
None == 0 - 1

(* recovery_times as calculate_recovery_time initialises it, and the *)
(* recovery_data of an event that is not tracked.  The times are     *)
(* counted in half-hours: elapsed_hours is half the number kept here *)
NoRecovery ==
    [submit_rate_recovery_hours |-> None, users_recovery_hours |-> None,
     wait_time_recovery_hours |-> None, full_recovery_hours |-> None,
     submit_rate_recovered |-> FALSE, users_recovered |-> FALSE,
     wait_time_recovered |-> FALSE, fully_recovered |-> FALSE]

NoBaseline == [submit_rate |-> 0, users |-> 0, wait_time |-> 0]

(* no function has run yet *)
InitLocals ==
    /\ peak_load = 0
    /\ peak_to_avg = Unset
    /\ peak_time = NaT
    /\ peak_jobs = <<>>
    /\ df_sorted = <<>>
    /\ user_queue = <<>>
    /\ arrays_detected = <<>>
    /\ sequences = <<>>
    /\ impact_time = NaT
    /\ end_time = NaT
    /\ baseline = NoBaseline
    /\ recovery_times = NoRecovery
    /\ impact_events = <<>>
    /\ input_file = <<>>
    /\ output_file = <<>>
    /\ scheduler = "None"
    /\ exit_status = None
    /\ messages = <<>>
    /\ files_read = {}
    /\ files_written = {}
    /\ events = <<>>
    /\ events_df = <<>>
    /\ idx = 0
    /\ current_cpus = 0
    /\ current_memory_mb = 0
    /\ timeseries = <<>>
    /\ stats = NoStats
    /\ start_date = NaT
    /\ end_date = NaT
    /\ current_time = NaT
    /\ sample_count = 0
    /\ time_points = <<>>
    /\ concurrent_cpus = <<>>
    /\ concurrent_compute_cpus = <<>>
    /\ concurrent_gpu_cpus = <<>>
    /\ concurrent_jobs = <<>>

Init ==
    /\ script \in {"true_utilization", "concurrent_load", "peak_attribution"}
    /\ csv_rows \in CASE script = "true_utilization" -> SweepInputs
                      [] script = "concurrent_load" -> TickInputs
                      [] script = "peak_attribution" -> PeakInputs
    /\ pc = "load"
    /\ df = <<>>
    /\ calls = <<>>
    /\ frames = <<>>
    /\ InitLocals
    /\ argv = <<>> /\ input_exists = FALSE

Next ==
    \/ LoadJobData
    \/ BuildEvents
    \/ SortEvents
    \/ SweepEvent
    \/ ReturnTimeseries
    \/ CalculateStatistics
    \/ LoadConcurrent
    \/ TimeRange
    \/ SampleTick
    \/ EndSampling
    \/ PeakToAverage
    \/ LoadMock
    \/ PeakAddRuntime
    \/ PeakRange
    \/ PeakSampleTime
    \/ PeakScan
    \/ PeakReport

Spec == Init /\ [][Next]_vars

(* The fixed-tick scripts alone.  A script is one sequential process, so  *)
(* a step that is enabled is eventually taken.                            *)
TickInit == Init /\ script \in {"concurrent_load", "peak_attribution"}

TickNext ==
    \/ LoadConcurrent
    \/ TimeRange
    \/ SampleTick
    \/ EndSampling
    \/ PeakToAverage
    \/ LoadMock
    \/ PeakAddRuntime
    \/ PeakRange
    \/ PeakSampleTime
    \/ PeakScan
    \/ PeakReport

FairTickSpec == TickInit /\ [][TickNext]_vars /\ WF_vars(TickNext)

----------------------------------------------------------------------------
(* calculate_utilization_timeseries called by two threads whose steps     *)
(* interleave.  calls holds each invocation's argument, position and      *)
(* returned value; frames holds the local variables of the function.      *)

Invocations == {1, 2}

(* the job tables passed by the callers *)
CallBatches == {<<>>,
                <<Row(0, 1, 1, 1)>>,
                <<Row(0, 2, 1, 0), Row(1, 2, 1, 1)>>,
                <<Row(0, 1, 1, 1), Row(1, 2, 1, 0)>>}

NewCall(jobs) == [pc |-> "events", df |-> jobs, ts_df |-> <<>>]

NewFrame == [events |-> <<>>, events_df |-> <<>>, idx |-> 0, current_cpus |-> 0,
             current_memory_mb |-> 0, timeseries |-> <<>>]

(* variant: both invocations use one set of variables *)
Frame_Shared(inv) == 1

(* the frame of an invocation: every call of a Python function has its *)
(* own local variables                                                *)
Frame(inv) == inv

(* events = [] and the loop over df.iterrows() *)
CallBuildEvents(inv) ==
    /\ calls[inv].pc = "events"
    /\ frames' = [frames EXCEPT ![Frame(inv)].events = JobEvents(calls[inv].df)]
    /\ calls' = [calls EXCEPT ![inv].pc = "sort"]
    /\ UNCHANGED <<script, pc, csv_rows, df, sweepVars, tickVars, peakVars, reportVars, arrayVars, recoveryVars, configVars>>

(* events_df, then timeseries = [], current_cpus = 0, current_memory_mb = 0 *)
CallSortEvents(inv) ==
    /\ calls[inv].pc = "sort"
    /\ IF frames[Frame(inv)].events = <<>>
       THEN /\ calls' = [calls EXCEPT ![inv].pc = "KeyError"]
            /\ UNCHANGED frames
       ELSE /\ \E sorted \in sort_values(frames[Frame(inv)].events) :
                  frames' = [frames EXCEPT ![Frame(inv)] =
                                [@ EXCEPT !.events_df = sorted, !.idx = 0,
                                          !.current_cpus = 0, !.current_memory_mb = 0,
                                          !.timeseries = <<>>]]
            /\ calls' = [calls EXCEPT ![inv].pc = "sweep"]
    /\ UNCHANGED <<script, pc, csv_rows, df, sweepVars, tickVars, peakVars, reportVars, arrayVars, recoveryVars, configVars>>

(* one iteration of the loop over events_df.iterrows() *)
CallSweepEvent(inv) ==
    /\ calls[inv].pc = "sweep"
    /\ LET frame == frames[Frame(inv)]
       IN  /\ frame.idx < Len(frame.events_df)
           /\ LET event == frame.events_df[frame.idx + 1]
                  cpus == ApplyEvent(frame.current_cpus, event.event_type, event.cpus)
                  mem == ApplyEvent(frame.current_memory_mb, event.event_type,
                                    event.memory_mb)
              IN  frames' = [frames EXCEPT ![Frame(inv)] =
                                [@ EXCEPT !.current_cpus = cpus, !.current_memory_mb = mem,
                                          !.timeseries = Append(@, Sample(event, cpus, mem)),
                                          !.idx = @ + 1]]
    /\ UNCHANGED <<calls, script, pc, csv_rows, df, sweepVars, tickVars, peakVars, reportVars, arrayVars, recoveryVars, configVars>>

(* return pd.DataFrame(timeseries) *)
CallReturn(inv) ==
    /\ calls[inv].pc = "sweep"
    /\ frames[Frame(inv)].idx >= Len(frames[Frame(inv)].events_df)
    /\ calls' = [calls EXCEPT ![inv].pc = "returned",
                              ![inv].ts_df = frames[Frame(inv)].timeseries]
    /\ UNCHANGED <<frames, script, pc, csv_rows, df, sweepVars, tickVars, peakVars,
                   reportVars, arrayVars, recoveryVars, configVars>>

CallInit ==
    /\ script = "true_utilization"
    /\ csv_rows = <<>>
    /\ pc = "calls"
    /\ df = <<>>
    /\ calls \in [Invocations -> {NewCall(jobs) : jobs \in CallBatches}]
    /\ frames = [f \in Invocations |-> NewFrame]
    /\ InitLocals
    /\ argv = <<>> /\ input_exists = FALSE

CallNext ==
    \/ \E inv \in Invocations : CallBuildEvents(inv)
    \/ \E inv \in Invocations : CallSortEvents(inv)
    \/ \E inv \in Invocations : CallSweepEvent(inv)
    \/ \E inv \in Invocations : CallReturn(inv)

CallSpec == CallInit /\ [][CallNext]_vars

----------------------------------------------------------------------------
(* analyze_short_jobs_and_arrays.py: detect_job_arrays(df).  df is the     *)
(* table load_job_data returned; submit times are in seconds.  Positions   *)
(* in a table count from 1 where iloc counts from 0.                       *)

ArrayJob(u, t, c, m) == [user |-> u, submit_time |-> t, cpus |-> c, mem_req |-> m]

(* the users, in the order a sort puts them *)
Users == <<"user_a", "user_b">>

ArrayJobs == {ArrayJob("user_a", 0, 5, 1), ArrayJob("user_a", 6, 5, 1),
              ArrayJob("user_a", 12, 4, 1), ArrayJob("user_a", 12, 5, 0),
              ArrayJob("user_b", 6, 5, 1)}

ArrayInputs == BoundedSeq(ArrayJobs, MaxArrayJobs)

(* array_threshold = 10  # seconds *)
ArrayThreshold == 10

UserRank(u) == CHOOSE k \in DOMAIN Users : Users[k] = u

(* the order of sort_values(['user', 'submit_time']) *)
KeyLess(a, b) ==
    \/ UserRank(a.user) < UserRank(b.user)
    \/ a.user = b.user /\ a.submit_time < b.submit_time

(* sorting by several columns is stable: rows with equal keys keep their *)
(* order in df                                                           *)
RECURSIVE SortByUserSubmit(_, _)
SortByUserSubmit(jobs, S) ==
    IF S = {} THEN <<>>
    ELSE LET i == CHOOSE k \in S : \A j \in S \ {k} :
                      KeyLess(jobs[k], jobs[j]) \/ (~KeyLess(jobs[j], jobs[k]) /\ k < j)
         IN  <<jobs[i]>> \o SortByUserSubmit(jobs, S \ {i})

(* df['user'].unique(): the users in order of first appearance *)
RECURSIVE Unique(_, _)
Unique(jobs, acc) ==
    IF jobs = <<>> THEN acc
    ELSE Unique(Tail(jobs), IF \E k \in DOMAIN acc : acc[k] = Head(jobs).user
                            THEN acc ELSE Append(acc, Head(jobs).user))

(* df_sorted[df_sorted['user'] == user] *)
UserJobs(jobs, user) == LET is(job) == job.user = user IN SelectSeq(jobs, is)

(* variant: the time since the previous submission is not computed *)
TimeSincePrev_Zero(user_jobs, j) == 0

(* user_jobs['submit_time'].diff() at position j > 1 *)
TimeSincePrev(user_jobs, j) == user_jobs[j].submit_time - user_jobs[j - 1].submit_time

(* 0.8 <= b / a <= 1.2 if a > 0, and the ratio is taken to be 1 otherwise *)
SimilarRequest(a, b) == a > 0 => (4 * a <= 5 * b /\ 5 * b <= 6 * a)

(* the inner while loop: the first position after i that is not appended *)
(* to array_jobs                                                         *)
RECURSIVE ArrayEnd(_, _, _)
ArrayEnd(user_jobs, i, j) ==
    IF j > Len(user_jobs) THEN j
    ELSE IF /\ TimeSincePrev(user_jobs, j) <= ArrayThreshold
            /\ SimilarRequest(user_jobs[i].cpus, user_jobs[j].cpus)
            /\ SimilarRequest(user_jobs[i].mem_req, user_jobs[j].mem_req)
         THEN ArrayEnd(user_jobs, i, j + 1)
         ELSE j

(* the record appended to arrays_detected; array_jobs is the local list of *)
(* positions the record is computed from (the averages are left out)       *)
ArrayRecord(user_jobs, i, j) ==
    LET times == {user_jobs[k].submit_time : k \in i..(j - 1)}
    IN  [user |-> user_jobs[i].user,
         array_jobs |-> [k \in 1..(j - i) |-> i + k - 1],
         first_submit_time |-> Min(times),
         array_size |-> j - i,
         submission_window_seconds |-> Max(times) - Min(times)]

(* variant: after a pattern the scan resumes at its second job *)
SkipPast_Overlapping(i, j) == i + 1

(* i = j: the scan resumes after the reported pattern *)
SkipPast(i, j) == j

(* the outer while loop from position i on *)
RECURSIVE ScanArrays(_, _, _)
ScanArrays(user_jobs, i, acc) ==
    IF i > Len(user_jobs) THEN acc
    ELSE LET j == ArrayEnd(user_jobs, i, i + 1)
         IN  IF j - i >= MinArraySize
             THEN ScanArrays(user_jobs, SkipPast(i, j),
                             Append(acc, ArrayRecord(user_jobs, i, j)))
             ELSE ScanArrays(user_jobs, i + 1, acc)

(* arrays_df.sort_values('array_size', ascending=False): a sort by one *)
(* column is not stable                                                *)
RECURSIVE BySizeDescending(_, _)
BySizeDescending(recs, S) ==
    IF S = {} THEN {<<>>}
    ELSE UNION {{<<recs[i]>> \o rest : rest \in BySizeDescending(recs, S \ {i})} :
                i \in {k \in S : \A j \in S : recs[k].array_size >= recs[j].array_size}}

(* df_sorted and the list of users *)
ArraySort ==
    /\ script = "short_jobs_and_arrays" /\ pc = "arrays"
    /\ df_sorted' = SortByUserSubmit(df, DOMAIN df)
    /\ user_queue' = Unique(df, <<>>)
    /\ arrays_detected' = <<>>
    /\ pc' = "array_users"
    /\ UNCHANGED <<sequences, script, csv_rows, df, sweepVars, tickVars, peakVars, reportVars, callVars, recoveryVars, configVars>>

(* one iteration of the loop over the users *)
ArrayUser ==
    /\ pc = "array_users"
    /\ user_queue # <<>>
    /\ LET user_jobs == UserJobs(df_sorted, Head(user_queue))
       IN  arrays_detected' = IF Len(user_jobs) < 2 THEN arrays_detected
                              ELSE ScanArrays(user_jobs, 1, arrays_detected)
    /\ user_queue' = Tail(user_queue)
    /\ UNCHANGED <<sequences, script, pc, csv_rows, df, df_sorted, sweepVars, tickVars, peakVars,
                   reportVars, callVars, recoveryVars, configVars>>

(* arrays_df is sorted and returned *)
ArrayReturn ==
    /\ pc = "array_users"
    /\ user_queue = <<>>
    /\ arrays_detected' \in BySizeDescending(arrays_detected, DOMAIN arrays_detected)
    /\ pc' = "arrays_done"
    /\ UNCHANGED <<sequences, script, csv_rows, df, df_sorted, user_queue, sweepVars, tickVars, peakVars,
                   reportVars, callVars, recoveryVars, configVars>>

ArrayInit ==
    /\ script = "short_jobs_and_arrays"
    /\ csv_rows = <<>>
    /\ pc = "arrays"
    /\ df \in ArrayInputs
    /\ calls = <<>>
    /\ frames = <<>>
    /\ InitLocals
    /\ argv = <<>> /\ input_exists = FALSE

ArrayNext ==
    \/ ArraySort
    \/ ArrayUser
    \/ ArrayReturn

ArraySpec == ArrayInit /\ [][ArrayNext]_vars

----------------------------------------------------------------------------
(* analyze_short_jobs_and_arrays.py: detect_workflow_sequences(df) *)

WorkflowJob(u, s, e) == [user |-> u, submit_time |-> s, end_time |-> e]

(* six jobs of user_a and one of user_b submitted in between *)
WorkflowJobs == {WorkflowJob("user_a", 0, 10), WorkflowJob("user_a", 10, 20),
                 WorkflowJob("user_a", 320, 330), WorkflowJob("user_a", 325, 340),
                 WorkflowJob("user_a", 340, 350), WorkflowJob("user_a", 650, 660),
                 WorkflowJob("user_b", 15, 30)}

(* the tables of at most n different jobs of S, in every file order *)
RECURSIVE Arrangements(_, _)
Arrangements(S, n) ==
    IF n = 0 THEN {<<>>}
    ELSE {<<>>} \cup UNION {{<<x>> \o rest : rest \in Arrangements(S \ {x}, n - 1)} : x \in S}

WorkflowInputs == Arrangements(WorkflowJobs, MaxWorkflowJobs)

(* submit_time - prev_end_time at position j > 1; prev_end_time is *)
(* end_time.shift(1)                                               *)
TimeSincePrevEnd(user_jobs, j) == user_jobs[j].submit_time - user_jobs[j - 1].end_time

(* variant: a job submitted before the previous one ended is accepted *)
InWorkflow_NoLowerBound(time_since_end) == time_since_end <= WorkflowThreshold

(* pd.notna(time_since_end) and 0 <= time_since_end <= workflow_threshold *)
InWorkflow(time_since_end) == 0 <= time_since_end /\ time_since_end <= WorkflowThreshold

(* the inner while loop: the first position after i that is not appended *)
(* to sequence_jobs                                                      *)
RECURSIVE SequenceEnd(_, _, _)
SequenceEnd(user_jobs, i, j) ==
    IF j > Len(user_jobs) THEN j
    ELSE IF InWorkflow(TimeSincePrevEnd(user_jobs, j))
         THEN SequenceEnd(user_jobs, i, j + 1)
         ELSE j

(* the record appended to sequences; sequence_jobs is the local list of *)
(* positions the record is computed from (the averages are left out)    *)
SequenceRecord(user_jobs, i, j) ==
    LET submits == {user_jobs[k].submit_time : k \in i..(j - 1)}
        ends == {user_jobs[k].end_time : k \in i..(j - 1)}
    IN  [user |-> user_jobs[i].user,
         sequence_jobs |-> [k \in 1..(j - i) |-> i + k - 1],
         sequence_start |-> Min(submits),
         sequence_end |-> Max(ends),
         sequence_length |-> j - i,
         total_duration_seconds |-> Max(ends) - Min(submits)]

(* the outer while loop from position i on *)
RECURSIVE ScanSequences(_, _, _)
ScanSequences(user_jobs, i, acc) ==
    IF i > Len(user_jobs) THEN acc
    ELSE LET j == SequenceEnd(user_jobs, i, i + 1)
         IN  IF j - i >= MinSequenceLength
             THEN ScanSequences(user_jobs, SkipPast(i, j),
                                Append(acc, SequenceRecord(user_jobs, i, j)))
             ELSE ScanSequences(user_jobs, i + 1, acc)

(* sequences_df.sort_values('sequence_length', ascending=False): a sort *)
(* by one column is not stable                                          *)
RECURSIVE ByLengthDescending(_, _)
ByLengthDescending(recs, S) ==
    IF S = {} THEN {<<>>}
    ELSE UNION {{<<recs[i]>> \o rest : rest \in ByLengthDescending(recs, S \ {i})} :
                i \in {k \in S : \A j \in S :
                                     recs[k].sequence_length >= recs[j].sequence_length}}

(* df_sorted and the list of users *)
WorkflowSort ==
    /\ script = "short_jobs_and_arrays" /\ pc = "workflows"
    /\ df_sorted' = SortByUserSubmit(df, DOMAIN df)
    /\ user_queue' = Unique(df, <<>>)
    /\ sequences' = <<>>
    /\ pc' = "workflow_users"
    /\ UNCHANGED <<arrays_detected, script, csv_rows, df, sweepVars, tickVars, peakVars,
                   reportVars, callVars, recoveryVars, configVars>>

(* one iteration of the loop over the users *)
WorkflowUser ==
    /\ pc = "workflow_users"
    /\ user_queue # <<>>
    /\ LET user_jobs == UserJobs(df_sorted, Head(user_queue))
       IN  sequences' = IF Len(user_jobs) < 3 THEN sequences
                        ELSE ScanSequences(user_jobs, 1, sequences)
    /\ user_queue' = Tail(user_queue)
    /\ UNCHANGED <<arrays_detected, script, pc, csv_rows, df, df_sorted, sweepVars, tickVars,
                   peakVars, reportVars, callVars, recoveryVars, configVars>>

(* sequences_df is sorted and returned *)
WorkflowReturn ==
    /\ pc = "workflow_users"
    /\ user_queue = <<>>
    /\ sequences' \in ByLengthDescending(sequences, DOMAIN sequences)
    /\ pc' = "workflows_done"
    /\ UNCHANGED <<arrays_detected, script, csv_rows, df, df_sorted, user_queue, sweepVars,
                   tickVars, peakVars, reportVars, callVars, recoveryVars, configVars>>

WorkflowInit ==
    /\ script = "short_jobs_and_arrays"
    /\ csv_rows = <<>>
    /\ pc = "workflows"
    /\ df \in WorkflowInputs
    /\ calls = <<>>
    /\ frames = <<>>
    /\ InitLocals
    /\ argv = <<>> /\ input_exists = FALSE

WorkflowNext ==
    \/ WorkflowSort
    \/ WorkflowUser
    \/ WorkflowReturn

WorkflowSpec == WorkflowInit /\ [][WorkflowNext]_vars

(* Either pattern detector, run on a table of its own *)
PatternInit == ArrayInit \/ WorkflowInit

PatternNext ==
    \/ ArraySort
    \/ ArrayUser
    \/ ArrayReturn
    \/ WorkflowSort
    \/ WorkflowUser
    \/ WorkflowReturn

PatternSpec == PatternInit /\ [][PatternNext]_vars

----------------------------------------------------------------------------
(* analyze_cross_user_impacts_with_recovery.py: one iteration of the loop  *)
(* of analyze_impact_events_with_recovery over the high-impact jobs, with  *)
(* its call of calculate_recovery_time.  Times are in half-hours.          *)

RecoveryJob(u, t, w) == [user |-> u, submit_time |-> t, wait_seconds |-> w]

ImpactUser == "user_0"

(* the impact job is submitted, and starts at once, one before-window *)
(* after the first slot                                               *)
ImpactTime == WindowBefore

(* the jobs other users submit in one half-hour slot *)
BatchTypes == {"small", "normal", "slow"}

Batch(type, t) ==
    CASE type = "small" -> <<RecoveryJob("user_a", t, 1800), RecoveryJob("user_a", t, 1800)>>
      [] type = "normal" -> <<RecoveryJob("user_a", t, 600), RecoveryJob("user_b", t, 600),
                              RecoveryJob("user_c", t, 600), RecoveryJob("user_a", t, 600),
                              RecoveryJob("user_b", t, 600)>>
      [] type = "slow" -> <<RecoveryJob("user_a", t, 1800), RecoveryJob("user_b", t, 1800),
                            RecoveryJob("user_c", t, 1800), RecoveryJob("user_a", t, 1800),
                            RecoveryJob("user_b", t, 1800)>>

(* two busy slots right where the recovery tracking has to stop *)
LateJobs ==
    Batch("normal", ImpactTime + 2 * MaxRecoveryHours) \o
    Batch("normal", ImpactTime + 2 * MaxRecoveryHours + 1)

(* the job table: the impact job, the slots from time 0 on, the late jobs *)
JobTable(slots, late) ==
    <<RecoveryJob(ImpactUser, ImpactTime, 0)>> \o
    Flatten([k \in DOMAIN slots |-> Batch(slots[k], k - 1)]) \o
    (IF late THEN LateJobs ELSE <<>>)

RecoveryInputs ==
    {JobTable(slots, late) : slots \in BoundedSeq(BatchTypes, MaxSlots), late \in BOOLEAN}

(* df[(df['user'] != impact_user) & (submit_time >= from) & (submit_time < to)] *)
OthersWindow(jobs, impact_user, from, to) ==
    LET in(job) == job.user # impact_user /\ job.submit_time >= from /\ job.submit_time < to
    IN  SelectSeq(jobs, in)

(* ['user'].nunique() *)
NUnique(jobs) == Cardinality({jobs[k].user : k \in DOMAIN jobs})

RECURSIVE SortedValues(_)
SortedValues(values) ==
    IF values = <<>> THEN <<>>
    ELSE LET k == CHOOSE i \in DOMAIN values : \A j \in DOMAIN values : values[i] <= values[j]
         IN  <<values[k]>> \o
             SortedValues([i \in 1..(Len(values) - 1) |->
                              IF i < k THEN values[i] ELSE values[i + 1]])

(* ['wait_seconds'].median() / 60 of a non-empty window (the waits of the *)
(* enumerated jobs are such that the divisions are exact)                  *)
WaitMinutes(jobs) ==
    LET sorted == SortedValues([k \in DOMAIN jobs |-> jobs[k].wait_seconds])
        n == Len(sorted)
        median == IF n % 2 = 1 THEN sorted[(n + 1) \div 2]
                  ELSE (sorted[n \div 2] + sorted[n \div 2 + 1]) \div 2
    IN  median \div 60

(* value >= baseline * 0.80 *)
AtLeast80Percent(value, base) == 5 * value >= 4 * base

(* value <= baseline * 1.20 *)
AtMost120Percent(value, base) == 5 * value <= 6 * base

(* submit_rate_change_pct < -25 for n_before jobs in one hour and n_after *)
(* jobs in two hours: ((n_after / 2 - n_before) / n_before * 100) < -25   *)
RateDropped(n_before, n_after) ==
    n_before > 0 /\ 100 * (n_after - 2 * n_before) < (0 - 25) * 2 * n_before

(* users_change_pct < -20: ((after - before) / before * 100) < -20 *)
UsersDropped(before, after) ==
    before > 0 /\ 100 * (after - before) < (0 - 20) * before

(* min(impact_time + max_recovery_time, df['submit_time'].max()) *)
RecoveryEnd(jobs, t) ==
    Min({t + 2 * MaxRecoveryHours, Max({jobs[k].submit_time : k \in DOMAIN jobs})})

(* variant: a recovery time is recorded at every step that meets the *)
(* threshold                                                         *)
RecordRecovery_Overwrite(times, hours, flag, met, elapsed) ==
    IF met THEN [times EXCEPT ![hours] = elapsed, ![flag] = TRUE] ELSE times

(* if not <metric>_recovered and <the threshold is met>: the elapsed time *)
(* is recorded and the flag set                                           *)
RecordRecovery(times, hours, flag, met, elapsed) ==
    IF ~times[flag] /\ met
    THEN [times EXCEPT ![hours] = elapsed, ![flag] = TRUE]
    ELSE times

AllRecovered(times) ==
    times.submit_rate_recovered /\ times.users_recovered /\ times.wait_time_recovered

(* variant: the full recovery time is the least of the three times *)
FullRecovery_Min(times) ==
    IF AllRecovered(times) /\ times.full_recovery_hours = None
    THEN [times EXCEPT !.full_recovery_hours =
                           Min({times.submit_rate_recovery_hours, times.users_recovery_hours,
                                times.wait_time_recovery_hours}),
                       !.fully_recovered = TRUE]
    ELSE times

(* the check for full recovery at the end of a step *)
FullRecovery(times) ==
    IF AllRecovered(times) /\ times.full_recovery_hours = None
    THEN [times EXCEPT !.full_recovery_hours =
                           Max({times.submit_rate_recovery_hours, times.users_recovery_hours,
                                times.wait_time_recovery_hours}),
                       !.fully_recovered = TRUE]
    ELSE times

(* the three metric checks of one step on the window others_window *)
CheckMetrics(times, others_window, base, elapsed) ==
    LET t1 == RecordRecovery(times, "submit_rate_recovery_hours", "submit_rate_recovered",
                             AtLeast80Percent(Len(others_window), base.submit_rate), elapsed)
        t2 == RecordRecovery(t1, "users_recovery_hours", "users_recovered",
                             AtLeast80Percent(NUnique(others_window), base.users), elapsed)
    IN  RecordRecovery(t2, "wait_time_recovery_hours", "wait_time_recovered",
                       AtMost120Percent(WaitMinutes(others_window), base.wait_time), elapsed)

OthersBefore == OthersWindow(df, ImpactUser, ImpactTime - WindowBefore, ImpactTime)

OthersAfter == OthersWindow(df, ImpactUser, ImpactTime, ImpactTime + WindowAfter)

(* not (len(others_before) < 5 or len(others_after) < 5) *)
EnoughData(before, after) == ~(Len(before) < MinWindowJobs \/ Len(after) < MinWindowJobs)

(* variant: a change of exactly -25% or -20% is a trigger too *)
IsAbandonmentTrigger_Inclusive(before, after) ==
    \/ 100 * (Len(after) - 2 * Len(before)) <= (0 - 25) * 2 * Len(before)
    \/ 100 * (NUnique(after) - NUnique(before)) <= (0 - 20) * NUnique(before)

(* is_abandonment_trigger *)
IsAbandonmentTrigger(before, after) ==
    \/ RateDropped(Len(before), Len(after))
    \/ UsersDropped(NUnique(before), NUnique(after))

(* the record appended to impact_events (the columns copied from the *)
(* impact job and the percentages are left out)                      *)
ImpactEvent(before, after, recovery_data) ==
    [impact_time |-> ImpactTime,
     submit_rate_before |-> Len(before),
     others_after |-> Len(after),
     wait_time_before_min |-> WaitMinutes(before),
     wait_time_after_min |-> WaitMinutes(after),
     active_users_before |-> NUnique(before),
     active_users_after |-> NUnique(after),
     is_abandonment_trigger |-> IsAbandonmentTrigger(before, after),
     recovery_data |-> recovery_data]

(* the loop body up to the call of calculate_recovery_time; an event that *)
(* is no abandonment trigger is appended with the default recovery_data   *)
ImpactWindows ==
    /\ script = "cross_user_impacts_with_recovery" /\ pc = "impact"
    /\ impact_time' = ImpactTime
    /\ IF ~EnoughData(OthersBefore, OthersAfter)
       THEN /\ pc' = "skipped"
            /\ UNCHANGED <<baseline, recovery_times, impact_events, current_time, end_time>>
       ELSE /\ baseline' = [submit_rate |-> Len(OthersBefore),
                             users |-> NUnique(OthersBefore),
                             wait_time |-> WaitMinutes(OthersBefore)]
            /\ IF IsAbandonmentTrigger(OthersBefore, OthersAfter)
               THEN /\ pc' = "recovery"
                    /\ recovery_times' = NoRecovery
                    /\ current_time' = ImpactTime
                    /\ end_time' = RecoveryEnd(df, ImpactTime)
                    /\ UNCHANGED impact_events
               ELSE /\ pc' = "recorded"
                    /\ impact_events' = Append(impact_events,
                                               ImpactEvent(OthersBefore, OthersAfter, NoRecovery))
                    /\ UNCHANGED <<recovery_times, current_time, end_time>>
    /\ UNCHANGED <<script, csv_rows, df, sweepVars, start_date, end_date, sample_count,
                   time_points, concurrent_cpus, concurrent_compute_cpus, concurrent_gpu_cpus,
                   concurrent_jobs, peakVars, reportVars, callVars, arrayVars, configVars>>

(* one iteration of the sampling loop of calculate_recovery_time; the loop *)
(* is left by break once all three metrics have recovered                  *)
RecoveryStep ==
    /\ pc = "recovery"
    /\ current_time < end_time
    /\ LET others_window == OthersWindow(df, ImpactUser, current_time,
                                         current_time + RecoveryWindow)
           checked == CheckMetrics(recovery_times, others_window, baseline,
                                   current_time - impact_time)
       IN  IF Len(others_window) >= MinWindowJobs
           THEN /\ recovery_times' = FullRecovery(checked)
                /\ IF AllRecovered(checked)
                   THEN pc' = "recovery_break" /\ UNCHANGED current_time
                   ELSE pc' = pc /\ current_time' = current_time + SamplingInterval
           ELSE /\ current_time' = current_time + SamplingInterval
                /\ UNCHANGED <<pc, recovery_times>>
    /\ UNCHANGED <<script, csv_rows, df, sweepVars, start_date, end_date, sample_count,
                   time_points, concurrent_cpus, concurrent_compute_cpus, concurrent_gpu_cpus,
                   concurrent_jobs, peakVars, reportVars, callVars, arrayVars, configVars,
                   impact_time, end_time, baseline, impact_events>>

(* return recovery_times: the event is appended with the returned data *)
RecoveryReturn ==
    /\ \/ pc = "recovery" /\ ~(current_time < end_time)
       \/ pc = "recovery_break"
    /\ impact_events' = Append(impact_events,
                               ImpactEvent(OthersBefore, OthersAfter, recovery_times))
    /\ pc' = "recorded"
    /\ UNCHANGED <<script, csv_rows, df, sweepVars, tickVars, peakVars, reportVars, callVars,
                   arrayVars, configVars, impact_time, end_time, baseline, recovery_times>>

RecoveryInit ==
    /\ script = "cross_user_impacts_with_recovery"
    /\ csv_rows = <<>>
    /\ pc = "impact"
    /\ df \in RecoveryInputs
    /\ calls = <<>>
    /\ frames = <<>>
    /\ InitLocals
    /\ argv = <<>> /\ input_exists = FALSE

RecoveryNext ==
    \/ ImpactWindows
    \/ RecoveryStep
    \/ RecoveryReturn

RecoverySpec == RecoveryInit /\ [][RecoveryNext]_vars

-----------------------------------------------------------------------------
(* standardize_cluster_config.py: the scheduler is detected from the name    *)
(* of the input file. A name is a sequence of pieces; `in` is modelled piece *)
(* by piece, so no keyword straddles two pieces.                             *)

NamePieces == {"slurm", "SLURM", "uge", "sge", "pbs", "lsf", "condor", "htcondor",
               "nodes", ".csv"}

FileNames == BoundedSeq(NamePieces, MaxNameLen)

(* sys.argv: the script, then at most two arguments *)
Arguments ==
    {<<"standardize_cluster_config.py">>} \cup
    {<<"standardize_cluster_config.py", name>> : name \in FileNames \ {<<>>}} \cup
    {<<"standardize_cluster_config.py", name, <<"out", ".csv">> >> : name \in FileNames \ {<<>>}}

(* str.lower() *)
Lower(piece) == IF piece = "SLURM" THEN "slurm" ELSE piece

LowerName(name) == [k \in DOMAIN name |-> Lower(name[k])]

(* keyword in name *)
NameContains(name, keyword) ==
    \E k \in DOMAIN name :
        \/ name[k] = keyword
        \/ name[k] = "htcondor" /\ keyword = "condor"

(* input_file.replace('.csv', '_standardized.csv') *)
ReplaceCsv(name) ==
    [k \in DOMAIN name |-> IF name[k] = ".csv" THEN "_standardized.csv" ELSE name[k]]

(* variant: lsf is looked for first *)
DetectedScheduler_LsfFirst(name) ==
    IF NameContains(LowerName(name), "lsf") THEN "LSF"
    ELSE IF NameContains(LowerName(name), "slurm") THEN "SLURM"
    ELSE IF NameContains(LowerName(name), "uge") \/ NameContains(LowerName(name), "sge") THEN "UGE"
    ELSE IF NameContains(LowerName(name), "pbs") THEN "PBS"
    ELSE IF NameContains(LowerName(name), "condor") \/ NameContains(LowerName(name), "htcondor")
         THEN "HTCondor"
    ELSE "None"

(* the if / elif chain on input_file.lower() *)
DetectedScheduler(name) ==
    IF NameContains(LowerName(name), "slurm") THEN "SLURM"
    ELSE IF NameContains(LowerName(name), "uge") \/ NameContains(LowerName(name), "sge") THEN "UGE"
    ELSE IF NameContains(LowerName(name), "pbs") THEN "PBS"
    ELSE IF NameContains(LowerName(name), "lsf") THEN "LSF"
    ELSE IF NameContains(LowerName(name), "condor") \/ NameContains(LowerName(name), "htcondor")
         THEN "HTCondor"
    ELSE "None"

(* the usage check and the two file names *)
ConfigArguments ==
    /\ script = "standardize_cluster_config" /\ pc = "arguments"
    /\ IF Len(argv) < 2
       THEN /\ messages' = Append(messages, "Usage")
            /\ exit_status' = 1
            /\ pc' = "exited"
            /\ UNCHANGED <<input_file, output_file>>
       ELSE /\ input_file' = argv[2]
            /\ output_file' = IF Len(argv) > 2 THEN argv[3] ELSE ReplaceCsv(argv[2])
            /\ pc' = "detect"
            /\ UNCHANGED <<messages, exit_status>>
    /\ UNCHANGED <<script, csv_rows, df, sweepVars, tickVars, peakVars, reportVars, callVars,
                   arrayVars, recoveryVars, argv, input_exists, scheduler, files_read,
                   files_written>>

(* the detection, the error exit, and the three lines printed otherwise *)
DetectScheduler ==
    /\ script = "standardize_cluster_config" /\ pc = "detect"
    /\ scheduler' = DetectedScheduler(input_file)
    /\ IF scheduler' = "None"
       THEN /\ messages' = Append(messages, "ERROR: Cannot detect scheduler from filename")
            /\ exit_status' = 1
            /\ pc' = "exited"
       ELSE /\ messages' = Append(messages, "Detected scheduler")
            /\ pc' = "read"
            /\ UNCHANGED exit_status
    /\ UNCHANGED <<script, csv_rows, df, sweepVars, tickVars, peakVars, reportVars, callVars,
                   arrayVars, recoveryVars, argv, input_exists, input_file, output_file,
                   files_read, files_written>>

(* df = pd.read_csv(input_file); a missing file ends the script with a *)
(* traceback                                                           *)
ReadInput ==
    /\ script = "standardize_cluster_config" /\ pc = "read"
    /\ IF input_exists
       THEN /\ files_read' = files_read \cup {input_file}
            /\ pc' = "standardize"
            /\ UNCHANGED <<messages, exit_status>>
       ELSE /\ messages' = Append(messages, "FileNotFoundError")
            /\ exit_status' = 1
            /\ pc' = "exited"
            /\ UNCHANGED files_read
    /\ UNCHANGED <<script, csv_rows, df, sweepVars, tickVars, peakVars, reportVars, callVars,
                   arrayVars, recoveryVars, argv, input_exists, input_file, output_file,
                   scheduler, files_written>>

(* the rows are converted (not modelled) and written to output_file *)
WriteOutput ==
    /\ script = "standardize_cluster_config" /\ pc = "standardize"
    /\ files_written' = files_written \cup {output_file}
    /\ messages' = Append(messages, "Output written")
    /\ exit_status' = 0
    /\ pc' = "exited"
    /\ UNCHANGED <<script, csv_rows, df, sweepVars, tickVars, peakVars, reportVars, callVars,
                   arrayVars, recoveryVars, argv, input_exists, input_file, output_file,
                   scheduler, files_read>>

ConfigInit ==
    /\ script = "standardize_cluster_config"
    /\ csv_rows = <<>>
    /\ pc = "arguments"
    /\ df = <<>>
    /\ calls = <<>>
    /\ frames = <<>>
    /\ InitLocals
    /\ argv \in Arguments
    /\ input_exists \in BOOLEAN

ConfigNext ==
    \/ ConfigArguments
    \/ DetectScheduler
    \/ ReadInput
    \/ WriteOutput

ConfigSpec == ConfigInit /\ [][ConfigNext]_vars

----------------------------------------------------------------------------
(* Properties of the event sweep *)

Returned == script = "true_utilization" /\ pc \in {"stats", "done"}

(* every job of the batch holds an amount >= 0 *)
NonNegative(jobs) == \A i \in DOMAIN jobs : jobs[i].cpus >= 0 /\ jobs[i].mem_req >= 0

ReturnedValid == Returned /\ NonNegative(df)

(* the span [start, end) of job contains the instant t *)
Contains(job, t) == job.start_time <= t /\ t < job.end_time

ActiveCpus(jobs, t) ==
    SumSeq([i \in DOMAIN jobs |-> IF Contains(jobs[i], t) THEN jobs[i].cpus ELSE 0])

ActiveMem(jobs, t) ==
    SumSeq([i \in DOMAIN jobs |-> IF Contains(jobs[i], t) THEN jobs[i].mem_req ELSE 0])

Exact(sample) ==
    /\ sample.cpus_allocated = ActiveCpus(df, sample.timestamp)
    /\ sample.memory_allocated_mb = ActiveMem(df, sample.timestamp)

EventTimes(jobs) ==
    {jobs[i].start_time : i \in DOMAIN jobs} \cup {jobs[i].end_time : i \in DOMAIN jobs}

SampleTimes(ts) == {ts[i].timestamp : i \in DOMAIN ts}

(* position i holds the last sample of its timestamp *)
LastOfTimestamp(ts, i) == i = Len(ts) \/ ts[i + 1].timestamp # ts[i].timestamp

SharedTimestamp(ts) == \E i \in 1..(Len(ts) - 1) : ts[i].timestamp = ts[i + 1].timestamp

C2_RemovalBeforeAddition ==
    Returned =>
        /\ \A i, j \in DOMAIN events_df :
              (/\ events_df[i].timestamp = events_df[j].timestamp
               /\ events_df[i].event_type = "end"
               /\ events_df[j].event_type = "start") => i < j
        /\ csv_rows \in TieBreakBatches =>
              \A i \in DOMAIN timeseries :
                  timeseries[i].timestamp = 10 =>
                      /\ timeseries[i].cpus_allocated # 8
                      /\ LastOfTimestamp(timeseries, i) => timeseries[i].cpus_allocated = 3

Instants(jobs) == Min(EventTimes(jobs))..Max(EventTimes(jobs))

(* the maximum over all instants of the summed amounts of the jobs running *)
TruePeak(jobs) == Max({ActiveCpus(jobs, t) : t \in Instants(jobs)})

(* C3 as stated: the peak reported from the event-sweep series equals the *)
(* maximum over all instants t of the summed amounts of the jobs with     *)
(* start <= t < end.                                                      *)
C3_PeakIsTrueMaximum ==
    (script = "true_utilization" /\ pc = "done" /\ NonNegative(df)) => stats.cpus_peak = TruePeak(df)

Count(ts, t, type) ==
    Cardinality({i \in DOMAIN ts : ts[i].timestamp = t /\ ts[i].event_type = type})

(* C5: the returned series holds one point per job start and one per job  *)
(* end, 2n points for n valid jobs, each tagged start or end: at every    *)
(* instant it has as many start points as jobs starting there and as many *)
(* end points as jobs ending there.                                       *)
C5_OnePointPerEvent ==
    Returned =>
        /\ Len(timeseries) = 2 * Len(df)
        /\ \A i \in DOMAIN timeseries : timeseries[i].event_type \in {"start", "end"}
        /\ \A t \in EventTimes(df) :
              /\ Count(timeseries, t, "start") =
                     Cardinality({j \in DOMAIN df : df[j].start_time = t})
              /\ Count(timeseries, t, "end") =
                     Cardinality({j \in DOMAIN df : df[j].end_time = t})

(* a returned series of two jobs where one ends at the instant the other  *)
(* starts                                                                 *)
C5_Witness ==
    /\ Returned
    /\ Len(df) = 2
    /\ df[1].end_time = df[2].start_time
    /\ Len(timeseries) = 4

NonDecreasing(times) == \A i, j \in DOMAIN times : i < j => times[i] <= times[j]

(* C6: the samples of the event sweep and the samples of the fixed-tick   *)
(* loop are in non-decreasing timestamp order.                            *)
C6_MonotonicTimestamps ==
    /\ NonDecreasing([i \in DOMAIN timeseries |-> timeseries[i].timestamp])
    /\ NonDecreasing(time_points)

(* a returned sweep whose events were not in timestamp order before the   *)
(* sort                                                                   *)
C6_Witness ==
    /\ Returned
    /\ Len(timeseries) >= 4
    /\ ~NonDecreasing([i \in DOMAIN events |-> events[i].timestamp])

LastSample == timeseries[Len(timeseries)]

(* the columns under which a sample would report a number of active jobs *)
CountColumns == {"active_count", "active_jobs", "jobs_running", "concurrent_jobs"}

ReportsCount(sample, n) == \E column \in CountColumns \cap DOMAIN sample : sample[column] = n

Permutations(n) == {p \in [1..n -> 1..n] : \A i, j \in 1..n : p[i] = p[j] => i = j}

Reordered(jobs, p) == [i \in DOMAIN jobs |-> jobs[p[i]]]

(* C8 as stated: the event sweep of any permutation of the batch yields   *)
(* the series the sweep of the batch yields, sample by sample.            *)
C8_OrderIndependent ==
    Returned =>
        \A p \in Permutations(Len(df)) :
            \A series \in SweepOutcomes(Reordered(df, p)) : series = timeseries

Series(ts) == [i \in DOMAIN ts |-> <<ts[i].timestamp, ts[i].cpus_allocated>>]

(* C9: for the batch [(0,10,4), (5,15,2), (20,25,6)] the event sweep      *)
(* returns exactly t=0 -> 4, t=5 -> 6, t=10 -> 2, t=15 -> 0, t=20 -> 6,   *)
(* t=25 -> 0, in that order.                                              *)
C9_ConcreteScenario ==
    (Returned /\ csv_rows \in ConcreteBatches) =>
        Series(timeseries) = << <<0, 4>>, <<5, 6>>, <<10, 2>>, <<15, 0>>, <<20, 6>>, <<25, 0>> >>

(* the concrete batch, read in an order other than by start time, swept   *)
(* to the end                                                             *)
C9_Witness ==
    /\ script = "true_utilization" /\ pc = "done"
    /\ csv_rows \in ConcreteBatches
    /\ csv_rows[1] = Row(20, 25, 6, 0)
    /\ Len(timeseries) = 6

(* C10 as stated: given an empty batch of jobs the event sweep does not   *)
(* fail and returns an empty series.                                      *)
C10_EmptyBatch ==
    (script = "true_utilization" /\ df = <<>> /\ pc \notin {"load", "events", "sort"}) =>
        /\ pc # "KeyError"
        /\ timeseries = <<>>

ViolatesInvariants(row) ==
    row.end_time <= row.start_time \/ row.cpus < 0 \/ row.mem_req < 0

(* the sum of the amounts started minus the sum of the amounts ended over *)
(* the first n events, with no clamping                                   *)
NetCpus(evs, n) ==
    SumSeq([i \in 1..n |-> IF evs[i].event_type = "start" THEN evs[i].cpus ELSE 0 - evs[i].cpus])

(* C11 as stated: a job record with end <= start or a negative amount     *)
(* causes an error that is reported to the caller; no record is silently  *)
(* dropped from the batch and the running total is never clamped.         *)
C11_InvalidRecordRejected ==
    (script = "true_utilization" /\ pc # "load") =>
        /\ (\E i \in DOMAIN csv_rows : ViolatesInvariants(csv_rows[i])) =>
               pc = "InvalidIntervalError"
        /\ Len(df) = Len(csv_rows)
        /\ current_cpus = NetCpus(events_df, idx)

----------------------------------------------------------------------------
(* Properties of fixed-tick sampling *)

(* the positions of the jobs with start <= t < end *)
ActiveAt(jobs, t) == {i \in DOMAIN jobs : jobs[i].start_time <= t /\ t < jobs[i].end_time}

RECURSIVE SumOver(_, _)
SumOver(jobs, S) ==
    IF S = {} THEN 0
    ELSE LET i == CHOOSE x \in S : TRUE
         IN  jobs[i].cpus_req + SumOver(jobs, S \ {i})

CeilDiv(a, d) == (a + d - 1) \div d

HourlyDone == script = "concurrent_load" /\ pc = "sampled" /\ start_date # NaT

SixHourlyDone ==
    script = "peak_attribution" /\ pc \in {"peak_report", "done", "TypeError"} /\ start_date # NaT

(* C13 as stated: over the inclusive range [range_start, range_end] with  *)
(* range_end >= range_start, fixed-tick sampling emits exactly            *)
(* ceil((range_end - range_start) / d) + 1 samples.                       *)
C13_CeilPlusOneSamples ==
    (HourlyDone /\ end_date >= start_date) =>
        Len(time_points) = CeilDiv(end_date - start_date, SampleInterval) + 1

(* C13 amended: the hourly loop over the inclusive range emits exactly    *)
(* floor((range_end - range_start) / d) + 1 samples, one per tick         *)
(* range_start + k * d; the 6-hourly loop of analyze_peak_attribution     *)
(* leaves range_end out and emits ceil((range_end - range_start) / d)     *)
(* samples when range_end > range_start and none otherwise.               *)
C13_FloorPlusOneSamples ==
    /\ (HourlyDone /\ end_date >= start_date) =>
          /\ Len(time_points) = ((end_date - start_date) \div SampleInterval) + 1
          /\ \A k \in DOMAIN time_points :
                time_points[k] = start_date + (k - 1) * SampleInterval
    /\ SixHourlyDone =>
          /\ Len(time_points) = IF end_date > start_date
                                THEN CeilDiv(end_date - start_date, PeakInterval)
                                ELSE 0
          /\ \A k \in DOMAIN time_points :
                time_points[k] = start_date + (k - 1) * PeakInterval

(* a finished hourly run over a range whose length is no multiple of the  *)
(* tick interval                                                          *)
C13_Witness ==
    /\ HourlyDone
    /\ (end_date - start_date) % SampleInterval # 0
    /\ Len(time_points) >= 2

InTickLoop == pc \in {"sample", "peak_sample"}

(* C15: every fixed-tick sampling loop terminates: the current tick       *)
(* strictly increases on each iteration, an iteration is taken only       *)
(* while the tick has not passed range_end, and the loop is eventually    *)
(* left.                                                                  *)
C15_TickLoopTerminates ==
    /\ [][(InTickLoop /\ pc' = pc) =>
             (current_time' > current_time /\ current_time <= end_date)]_vars
    /\ <>(~InTickLoop /\ pc # "load" /\ pc # "range" /\ pc # "peak_call" /\ pc # "peak_range")

(* a loop that was left after several iterations *)
C15_Witness ==
    /\ script = "concurrent_load" /\ pc = "sampled"
    /\ Len(time_points) >= 2
    /\ current_time > end_date

ZeroMean == concurrent_cpus = <<>> \/ SumSeq(concurrent_cpus) = 0

(* C16: the peak-to-average ratio is max / mean of the sample series, and *)
(* with a mean of 0 (empty or all-zero series) the computation signals an *)
(* error: it never completes with a value (0, infinity or NaN) then.      *)
C16_ZeroMeanSignalsError ==
    (script = "concurrent_load" /\ pc = "reported") =>
        /\ ~ZeroMean
        /\ peak_to_avg = Ratio(Max(Range(concurrent_cpus)) * Len(concurrent_cpus),
                               SumSeq(concurrent_cpus))

PeakReturned == script = "peak_attribution" /\ pc \in {"peak_report", "done", "TypeError"}

(* C17: computing a usage timeline never mutates the caller's job batch:  *)
(* once the event sweep or the fixed-tick scan of analyze_peak_attribution *)
(* is over, the job table has the rows, columns and values it was passed.  *)
C17_InputNotMutated ==
    /\ Returned => df = load_job_data(csv_rows)
    /\ PeakReturned => df = csv_rows

IsPrefix(s, t) == Len(s) <= Len(t) /\ s = SubSeq(t, 1, Len(s))

(* C18: two invocations of the event sweep on independent inputs, their  *)
(* steps interleaved in any order, each produce a series the invocation   *)
(* produces when run alone (and fail alone exactly when they fail here):  *)
(* the running totals and the series built so far are the invocation's.   *)
C18_InterleavedIndependent ==
    \A inv \in DOMAIN calls :
        /\ calls[inv].pc = "returned" => calls[inv].ts_df \in SweepOutcomes(calls[inv].df)
        /\ calls[inv].pc = "sweep" =>
               \E alone \in SweepOutcomes(calls[inv].df) :
                   IsPrefix(frames[inv].timeseries, alone)
        /\ calls[inv].pc = "KeyError" => calls[inv].df = <<>>
        /\ calls[inv].df = <<>> => calls[inv].pc \in {"events", "sort", "KeyError"}

(* both invocations are in the middle of their loops, on different tables, *)
(* and one then returns while the other is still in its loop               *)
C18_Witness ==
    /\ DOMAIN calls = Invocations
    /\ calls[1].df # calls[2].df
    /\ calls[1].pc = "returned" /\ Len(calls[1].ts_df) = 4
    /\ calls[2].pc = "sweep"
    /\ frames[2].idx >= 1 /\ frames[2].idx < Len(frames[2].events_df)
    /\ frames[2].timeseries # <<>>

Disjoint(a, b) == a.end_time <= b.start_time \/ b.end_time <= a.start_time

PairwiseDisjoint(jobs) ==
    \A i, j \in DOMAIN jobs : i # j => Disjoint(jobs[i], jobs[j])

(* sum over jobs of amount x (end - start) *)
CpuTime(jobs) ==
    SumSeq([i \in DOMAIN jobs |-> jobs[i].cpus * (jobs[i].end_time - jobs[i].start_time)])

(* C19: for pairwise-disjoint jobs the time-weighted sum formed by        *)
(* calculate_statistics equals the sum over jobs of amount x (end - start) *)
(* and the weights add up to the span from the first to the last event.    *)
C19_IntegralIsCpuTime ==
    (script = "true_utilization" /\ pc = "done" /\ NonNegative(df) /\ PairwiseDisjoint(df)) =>
        /\ stats.time_weighted.cpu = CpuTime(df)
        /\ stats.time_weighted.total_time =
               Max(EventTimes(df)) - Min(EventTimes(df))

ArraysReturned == script = "short_jobs_and_arrays" /\ pc = "arrays_done"

(* b is within 20% of a: 0.8 <= b / a <= 1.2 *)
Within20(a, b) == 4 * a <= 5 * b /\ 5 * b <= 6 * a

(* the jobs of a reported array *)
Members(r) ==
    LET user_jobs == UserJobs(df_sorted, r.user)
    IN  [k \in DOMAIN r.array_jobs |-> user_jobs[r.array_jobs[k]]]

(* C20: every reported job array has at least 3 jobs, all of one user and *)
(* consecutive in that user's submit-time order, and each job's CPU and   *)
(* memory request is within 20% of the request of the array's first job.  *)
C20_ArraysSimilarConsecutive ==
    ArraysReturned =>
        \A n \in DOMAIN arrays_detected :
            LET r == arrays_detected[n]
                user_jobs == UserJobs(df_sorted, r.user)
            IN  /\ r.array_size >= 3
                /\ Len(r.array_jobs) = r.array_size
                /\ \A k \in DOMAIN r.array_jobs :
                       /\ r.array_jobs[k] \in DOMAIN user_jobs
                       /\ k > 1 => r.array_jobs[k] = r.array_jobs[k - 1] + 1
                /\ \A k \in 2..Len(user_jobs) :
                       user_jobs[k - 1].submit_time <= user_jobs[k].submit_time
                /\ \A k \in DOMAIN r.array_jobs :
                       /\ Members(r)[k].user = r.user
                       /\ Within20(Members(r)[1].cpus, Members(r)[k].cpus)
                       /\ Within20(Members(r)[1].mem_req, Members(r)[k].mem_req)

WorkflowsReturned == script = "short_jobs_and_arrays" /\ pc = "workflows_done"

(* the jobs of a reported sequence *)
SequenceMembers(r) ==
    LET user_jobs == UserJobs(df_sorted, r.user)
    IN  [k \in DOMAIN r.sequence_jobs |-> user_jobs[r.sequence_jobs[k]]]

(* C22: every reported workflow sequence has at least 3 jobs, all of one  *)
(* user and consecutive in that user's submit-time order, and every job   *)
(* after the first was submitted between 0 and 300 seconds (inclusive)    *)
(* after the end time of the job just before it.                          *)
C22_SequencesChained ==
    WorkflowsReturned =>
        \A n \in DOMAIN sequences :
            LET r == sequences[n]
                user_jobs == UserJobs(df_sorted, r.user)
                jobs == SequenceMembers(r)
            IN  /\ r.sequence_length >= 3
                /\ Len(r.sequence_jobs) = r.sequence_length
                /\ \A k \in DOMAIN r.sequence_jobs :
                       /\ r.sequence_jobs[k] \in DOMAIN user_jobs
                       /\ k > 1 => r.sequence_jobs[k] = r.sequence_jobs[k - 1] + 1
                       /\ jobs[k].user = r.user
                /\ \A k \in 2..Len(user_jobs) :
                       user_jobs[k - 1].submit_time <= user_jobs[k].submit_time
                /\ \A k \in 2..Len(jobs) :
                       /\ jobs[k].submit_time - jobs[k - 1].end_time >= 0
                       /\ jobs[k].submit_time - jobs[k - 1].end_time <= 300

(* a sequence is reported whose jobs were submitted exactly 0 and exactly *)
(* 300 seconds after the previous end, next to a job of another user      *)
C22_Witness ==
    /\ WorkflowsReturned
    /\ \E k \in DOMAIN df : df[k].user = "user_b"
    /\ \E n \in DOMAIN sequences :
           LET jobs == SequenceMembers(sequences[n])
           IN  /\ Len(jobs) = 3
               /\ jobs[2].submit_time - jobs[1].end_time = 0
               /\ jobs[3].submit_time - jobs[2].end_time = 300

(* two lists of positions have no position in common *)
DisjointPositions(p, q) == Range(p) \cap Range(q) = {}

(* C27: no job belongs to two detected patterns of one kind: the arrays   *)
(* reported for a user cover pairwise-disjoint positions of that user's   *)
(* jobs, and so do the sequences reported for a user.                     *)
C27_PatternsDisjoint ==
    /\ ArraysReturned =>
           \A n, m \in DOMAIN arrays_detected :
               (n # m /\ arrays_detected[n].user = arrays_detected[m].user) =>
                   DisjointPositions(arrays_detected[n].array_jobs,
                                     arrays_detected[m].array_jobs)
    /\ WorkflowsReturned =>
           \A n, m \in DOMAIN sequences :
               (n # m /\ sequences[n].user = sequences[m].user) =>
                   DisjointPositions(sequences[n].sequence_jobs,
                                     sequences[m].sequence_jobs)

(* two arrays, or two sequences, are reported for one user, the second *)
(* right after the first                                               *)
C27_Witness ==
    \/ /\ ArraysReturned
       /\ Len(arrays_detected) = 2
       /\ arrays_detected[1].user = arrays_detected[2].user
       /\ arrays_detected[2].array_jobs[1] = 4
    \/ /\ WorkflowsReturned
       /\ Len(sequences) = 2
       /\ sequences[1].user = sequences[2].user
       /\ sequences[2].sequence_jobs[1] = 4

InRecovery ==
    script = "cross_user_impacts_with_recovery" /\ pc \in {"recovery", "recovery_break"}

(* C23: in the result of calculate_recovery_time, fully_recovered is true  *)
(* if and only if the three metric flags are all true; then                *)
(* full_recovery_hours is the greatest of the three recovery times, and    *)
(* otherwise it is None.                                                   *)
C23_FullRecoveryConsistent ==
    (script = "cross_user_impacts_with_recovery"
        /\ (pc = "recovery_break" \/ (pc = "recovery" /\ ~(current_time < end_time)))) =>
        /\ recovery_times.fully_recovered <=> AllRecovered(recovery_times)
        /\ recovery_times.fully_recovered =>
               /\ recovery_times.full_recovery_hours >= recovery_times.submit_rate_recovery_hours
               /\ recovery_times.full_recovery_hours >= recovery_times.users_recovery_hours
               /\ recovery_times.full_recovery_hours >= recovery_times.wait_time_recovery_hours
               /\ recovery_times.full_recovery_hours \in
                      {recovery_times.submit_rate_recovery_hours,
                       recovery_times.users_recovery_hours,
                       recovery_times.wait_time_recovery_hours}
        /\ ~recovery_times.fully_recovered => recovery_times.full_recovery_hours = None

(* a full recovery whose three metrics recovered at different steps *)
C23_Witness ==
    /\ script = "cross_user_impacts_with_recovery" /\ pc = "recovery_break"
    /\ recovery_times.fully_recovered
    /\ recovery_times.users_recovery_hours < recovery_times.submit_rate_recovery_hours
    /\ recovery_times.full_recovery_hours = recovery_times.submit_rate_recovery_hours
    /\ recovery_times.wait_time_recovery_hours < recovery_times.full_recovery_hours

(* the one-hour window of the sampling step k half-hours after the impact *)
StepWindow(k) == OthersWindow(df, ImpactUser, impact_time + k, impact_time + k + RecoveryWindow)

(* the step k holds enough submissions and meets the threshold of a metric *)
StepMeets(hours, k) ==
    /\ Len(StepWindow(k)) >= MinWindowJobs
    /\ CASE hours = "submit_rate_recovery_hours" ->
                 5 * Len(StepWindow(k)) >= 4 * baseline.submit_rate
         [] hours = "users_recovery_hours" ->
                 5 * NUnique(StepWindow(k)) >= 4 * baseline.users
         [] hours = "wait_time_recovery_hours" ->
                 5 * WaitMinutes(StepWindow(k)) <= 6 * baseline.wait_time

(* the sampling steps the loop has gone through *)
StepsDone ==
    IF pc = "recovery_break" THEN 0..(current_time - impact_time)
    ELSE 0..(current_time - impact_time - 1)

MetricHours ==
    {"submit_rate_recovery_hours", "users_recovery_hours", "wait_time_recovery_hours"}

FirstMeetingStep(hours) ==
    IF \E k \in StepsDone : StepMeets(hours, k)
    THEN CHOOSE k \in StepsDone :
             StepMeets(hours, k) /\ \A j \in StepsDone : StepMeets(hours, j) => k <= j
    ELSE None

(* C24: all through calculate_recovery_time each metric's recovery time is *)
(* the elapsed time (in half-hours here) of the first sampling step whose  *)
(* one-hour window holds at least 5 submissions by other users and meets   *)
(* the metric's threshold, and None while no step did; a recorded time is  *)
(* never changed by a later step, and it lies in [0, max_recovery_hours).  *)
C24_FirstQualifyingStep ==
    /\ [](InRecovery =>
             \A hours \in MetricHours :
                 /\ recovery_times[hours] = FirstMeetingStep(hours)
                 /\ recovery_times[hours] # None =>
                        /\ recovery_times[hours] >= 0
                        /\ recovery_times[hours] < 2 * MaxRecoveryHours)
    /\ [][\A hours \in MetricHours :
              recovery_times[hours] # None => recovery_times'[hours] = recovery_times[hours]]_vars

(* a metric recovered at some step, a later step gone through meets its   *)
(* threshold again, and another metric recovered only in the last half    *)
(* hour before max_recovery_hours                                         *)
C24_Witness ==
    /\ InRecovery
    /\ \E hours \in MetricHours :
           /\ recovery_times[hours] # None
           /\ \E k \in StepsDone : k > recovery_times[hours] /\ StepMeets(hours, k)
    /\ \E hours \in MetricHours : recovery_times[hours] = 2 * MaxRecoveryHours - 1

(* the numbers of other users' submissions in the hour before and in the *)
(* two hours after the start of the impact job, and of their users       *)
JobsBefore ==
    Cardinality({k \in DOMAIN df : /\ df[k].user # ImpactUser
                                    /\ df[k].submit_time >= ImpactTime - WindowBefore
                                    /\ df[k].submit_time < ImpactTime})

JobsAfter ==
    Cardinality({k \in DOMAIN df : /\ df[k].user # ImpactUser
                                    /\ df[k].submit_time >= ImpactTime
                                    /\ df[k].submit_time < ImpactTime + WindowAfter})

UsersBefore ==
    Cardinality({df[k].user : k \in {j \in DOMAIN df :
                                         /\ df[j].user # ImpactUser
                                         /\ df[j].submit_time >= ImpactTime - WindowBefore
                                         /\ df[j].submit_time < ImpactTime}})

UsersAfter ==
    Cardinality({df[k].user : k \in {j \in DOMAIN df :
                                         /\ df[j].user # ImpactUser
                                         /\ df[j].submit_time >= ImpactTime
                                         /\ df[j].submit_time < ImpactTime + WindowAfter}})

(* the hourly rate fell by more than 25%, or the users by more than 20% *)
Abandoned == 2 * JobsAfter < 3 * JobsBefore \/ 5 * UsersAfter < 4 * UsersBefore

(* C25: an impact event is recorded only when the hour before and the two *)
(* hours after the start of the impact job hold at least 5 submissions by *)
(* other users each; the event is flagged as an abandonment trigger       *)
(* exactly when the submission rate fell by more than 25% or the active   *)
(* users by more than 20%; calculate_recovery_time runs only for a        *)
(* flagged event, and an event that is not flagged keeps all recovery     *)
(* times None and all recovery flags false.                               *)
C25_EventsRecordedAndFlagged ==
    script = "cross_user_impacts_with_recovery" =>
        /\ impact_events # <<>> => (JobsBefore >= 5 /\ JobsAfter >= 5)
        /\ \A k \in DOMAIN impact_events :
               /\ impact_events[k].is_abandonment_trigger <=> Abandoned
               /\ ~impact_events[k].is_abandonment_trigger =>
                      impact_events[k].recovery_data = NoRecovery
        /\ pc \in {"recovery", "recovery_break"} =>
               (JobsBefore >= 5 /\ JobsAfter >= 5 /\ Abandoned)
        /\ (pc = "recorded" /\ ~Abandoned) => recovery_times = NoRecovery

(* an event whose rate fell by exactly 25% is recorded without a flag *)
C25_Witness ==
    /\ script = "cross_user_impacts_with_recovery" /\ pc = "recorded"
    /\ Len(impact_events) = 1
    /\ ~impact_events[1].is_abandonment_trigger
    /\ 2 * JobsAfter = 3 * JobsBefore
    /\ impact_events[1].recovery_data = NoRecovery

(* the keyword is a part of the lower-cased name *)
NameHas(keyword) ==
    \E k \in DOMAIN input_file :
        \/ input_file[k] = keyword
        \/ input_file[k] = "SLURM" /\ keyword = "slurm"
        \/ input_file[k] = "htcondor" /\ keyword = "condor"

Detected == script = "standardize_cluster_config" /\ pc \in {"read", "standardize", "exited"}
               /\ input_file # <<>>

(* C26: standardize_cluster_config takes the scheduler from the name of    *)
(* the input file with the precedence slurm, uge or sge, pbs, lsf, condor; *)
(* when the name holds none of them the script reports an error and exits  *)
(* with status 1, having read no input and written no output file.         *)
C26_SchedulerFromFileName ==
    Detected =>
        /\ NameHas("slurm") => scheduler = "SLURM"
        /\ (~NameHas("slurm") /\ (NameHas("uge") \/ NameHas("sge"))) => scheduler = "UGE"
        /\ (~NameHas("slurm") /\ ~NameHas("uge") /\ ~NameHas("sge") /\ NameHas("pbs")) =>
               scheduler = "PBS"
        /\ (~NameHas("slurm") /\ ~NameHas("uge") /\ ~NameHas("sge") /\ ~NameHas("pbs")
               /\ NameHas("lsf")) => scheduler = "LSF"
        /\ (~NameHas("slurm") /\ ~NameHas("uge") /\ ~NameHas("sge") /\ ~NameHas("pbs")
               /\ ~NameHas("lsf") /\ NameHas("condor")) => scheduler = "HTCondor"
        /\ (~NameHas("slurm") /\ ~NameHas("uge") /\ ~NameHas("sge") /\ ~NameHas("pbs")
               /\ ~NameHas("lsf") /\ ~NameHas("condor")) =>
               /\ pc = "exited"
               /\ exit_status = 1
               /\ messages = <<"ERROR: Cannot detect scheduler from filename">>
               /\ files_read = {}
               /\ files_written = {}

(* an existing input file whose name holds no keyword: the script has *)
(* exited with the error                                              *)
C26_Witness ==
    /\ script = "standardize_cluster_config" /\ pc = "exited"
    /\ input_file = <<"nodes", ".csv">>
    /\ input_exists
    /\ exit_status = 1
    /\ scheduler = "None"
    /\ files_written = {}
====
